---- MODULE Spec2Model ----
(***************************************************************************)
(* ClipFlow frontend (src/frontend/src/App.tsx): the App component's state *)
(* (clips, isUploading, isProcessing, progress, the progress WebSocket)    *)
(* and its handlers (loadClips, handleFileUpload, handleProcess,           *)
(* handleDeleteClip, websocket.onmessage).  Every handler runs to its next *)
(* await as one atomic step (single-threaded event loop); every awaited    *)
(* fetch is a request in flight that the backend resolves later with one   *)
(* of the outcomes the handler distinguishes.                              *)
(*                                                                         *)
(* The backend is outside the repository: it is modelled as the list of    *)
(* clip ids it stores and as a nondeterministic choice of the outcome of   *)
(* each request and of the events it pushes on the progress channel.       *)
(* The optional display-only field `message` of a progress event is left   *)
(* out; no handler reads it.                                               *)
(***************************************************************************)
EXTENDS Integers, Sequences, FiniteSets, TLC

VARIABLES
    clips,        \* useState<VideoClip[]>: the ids of the clips held, in order
    isUploading,  \* useState(false)
    isProcessing, \* useState(false)
    progress,     \* useState<ProcessingProgress | null>
    websocket,    \* the progress WebSocket: "open" | "closed"
    server,       \* backend: ids of the stored clips, in upload order
    nextId,       \* backend: the id the next stored clip gets
    refreshes,    \* loadClips() invocations awaiting their fetch, in issue order
    uploads,      \* handleFileUpload invocations inside their loop
    doneBatch,    \* history: the handleFileUpload invocation that ended last,
                  \*          until the next one begins
    concatReqs,   \* handleProcess invocations awaiting their fetch
    deleteReqs,   \* handleDeleteClip invocations awaiting their fetch (clip ids)
    peak,         \* history: highest progress value recorded for the active job
    rising,       \* history: no event of the active job carried less than the one before
    lastOp        \* history: the handler that ran last and how it ended

vars == <<clips, isUploading, isProcessing, progress, websocket, server, nextId,
          refreshes, uploads, doneBatch, concatReqs, deleteReqs, peak, rising, lastOp>>

(***************************************************************************)
(* Bounds                                                                  *)
(***************************************************************************)
MaxId == 2          \* the backend stores at most this many clips over a run
InitClips == 2      \* clips the backend may already hold when the page loads
MaxFiles == 2       \* files in one selection
MaxRefresh == 2     \* loadClips() fetches in flight
MaxConcat == 2      \* concatenate fetches in flight
MaxDelete == 2      \* delete fetches in flight

(***************************************************************************)
(* Values                                                                  *)
(***************************************************************************)
NULL == [null |-> TRUE]

Percents == {25, 40, 100}
Stages == {"processing", "complete", "error"}
Filenames == {"", "out.mp4"}       \* "" : the event has no output_filename

\* interface ProcessingProgress (message omitted)
ProcessingProgress ==
    [stage : Stages, progress : Percents, output_filename : Filenames]

\* variant: handleProcess does not call setProgress
StartingMissing == NULL

Starting == [stage |-> "starting", progress |-> 0, output_filename |-> ""]

Max(a, b) == IF a >= b THEN a ELSE b

RemoveAt(s, i) == SubSeq(s, 1, i - 1) \o SubSeq(s, i + 1, Len(s))

Range(s) == {s[i] : i \in DOMAIN s}

Without(s, x) == SelectSeq(s, LAMBDA y : y # x)

Op(op, res) == [op |-> op, res |-> res]

(***************************************************************************)
(* loadClips                                                               *)
(***************************************************************************)
\* the call up to `await fetch(.../api/clips/)`: one more fetch in flight
\* (stale is history: the clip list of a refresh issued later has been applied
\* while this refresh already held a different answer)
loadClips(rs, origin) ==
    Append(rs, [origin |-> origin, answered |-> FALSE, clips |-> <<>>,
                stale |-> FALSE])

\* how the awaits of loadClips end:
\*   ok        a JSON body { clips: [...] }
\*   error     a JSON error body without a `clips` field (non-OK status)
\*   badbody   a body response.json() rejects
\*   transport fetch itself rejects
RefreshKinds == {"ok", "error", "badbody", "transport"}

\* the backend reads its clip list to answer the fetch of refresh i
ListClipsRespond(i) ==
    /\ i \in DOMAIN refreshes
    /\ ~refreshes[i].answered
    /\ refreshes' = [refreshes EXCEPT ![i].answered = TRUE, ![i].clips = server]
    /\ UNCHANGED <<clips, isUploading, isProcessing, progress, websocket, server,
                   nextId, uploads, doneBatch, concatReqs, deleteReqs, peak, rising, lastOp>>

\* data.clips || []
ClipsOf(r, kind) == IF kind = "ok" THEN r.clips ELSE <<>>

\* does the try block reach setClips?
ReachesSetClips(kind) == kind \in {"ok", "error"}

\* history: the answers held by refreshes issued before refresh i are
\* overtaken by the clip list of refresh i
Overtaken(rs, i) ==
    [j \in DOMAIN rs |->
        IF j < i /\ rs[j].answered /\ rs[j].clips # rs[i].clips
        THEN [rs[j] EXCEPT !.stale = TRUE] ELSE rs[j]]

\* loadClips resumes after its awaits, which ended as `kind`
LoadClipsResume(i, kind) ==
    /\ i \in DOMAIN refreshes
    /\ kind = "ok" => refreshes[i].answered
    /\ clips' = IF ReachesSetClips(kind) THEN ClipsOf(refreshes[i], kind) ELSE clips
    /\ refreshes' = RemoveAt(IF kind = "ok" THEN Overtaken(refreshes, i)
                              ELSE refreshes, i)
    /\ lastOp' = [op |-> "loadClips", res |-> kind, origin |-> refreshes[i].origin]
    /\ UNCHANGED <<isUploading, isProcessing, progress, websocket, server, nextId,
                   uploads, doneBatch, concatReqs, deleteReqs, peak, rising>>

(***************************************************************************)
(* handleFileUpload                                                        *)
(***************************************************************************)
UploadOutcomes == {"ok", "rejected", "badbody", "transport"}

\* an invocation inside its loop: n files, file i awaiting its fetch, the
\* number of files whose fetch has resolved, the files whose upload failed, the
\* files an alert was raised for, and the number of loadClips() calls made;
\* history: the files the backend did not store, the number of clips the
\* backend held when the invocation began, and whether no other refresh was in
\* flight when it ended
Batch(n) == [n |-> n, i |-> 1, resolved |-> 0, failed |-> {}, alerted |-> {},
             refreshes |-> 0, unstored |-> {}, before |-> Len(server),
             solo |-> FALSE]

\* variant: the input carries no disabled attribute
InputNeverDisabled == FALSE

\* <input type="file" ... disabled={isUploading}>
InputDisabled == isUploading

\* variant: the selection is not tested
NoFilesNever(n) == FALSE

\* !files || files.length === 0
NoFiles(n) == n = 0

\* the user selects n files in the file input
SelectFiles(n) ==
    /\ websocket = "open"
    /\ IF InputDisabled
       THEN /\ lastOp' = Op("handleFileUpload", "disabled")
            /\ UNCHANGED <<isUploading, uploads, doneBatch>>
       ELSE IF NoFiles(n)
       THEN /\ lastOp' = Op("handleFileUpload", "nofiles")
            /\ UNCHANGED <<isUploading, uploads, doneBatch>>
       ELSE /\ isUploading' = TRUE
            /\ uploads' = Append(uploads, Batch(n))
            /\ doneBatch' = NULL
            /\ lastOp' = Op("handleFileUpload", "started")
    /\ UNCHANGED <<clips, isProcessing, progress, websocket, server, nextId,
                   refreshes, concatReqs, deleteReqs, peak, rising>>

\* does the try block of the loop body reach its end?
UploadSucceeded(outcome) == outcome = "ok"

\* the catch block alerts for the file whose upload threw
AlertedAfter(u, outcome) ==
    IF UploadSucceeded(outcome) THEN u.alerted ELSE u.alerted \cup {u.i}

\* variant: the try/catch encloses the loop, so a failed upload leaves it
LoopEndsOnFailure(u, outcome) == u.i = u.n \/ ~UploadSucceeded(outcome)

\* the for-of loop is left after file u.i, whose upload ended with outcome:
\* the try/catch is inside the loop body, so only when no file is left
LoopEnds(u, outcome) == u.i = u.n

\* variant: loadClips() is called inside the loop body
RefreshEveryFile(u, outcome) == 1

\* loadClips() calls the handler makes once file u.i has resolved: the call
\* stands after the loop
RefreshesAfter(u, outcome) == IF LoopEnds(u, outcome) THEN 1 ELSE 0

\* the backend stores the file: response.ok (badbody: its body is not JSON)
Stored(outcome) == outcome \in {"ok", "badbody"}

\* the fetch of file u.i of invocation b resolves; the handler runs on to
\* the fetch of the next file, or past the loop to its end
UploadResolve(b, outcome) ==
    /\ b \in DOMAIN uploads
    /\ Stored(outcome) => nextId <= MaxId
    /\ LET u == uploads[b]
           k == RefreshesAfter(u, outcome)
           v == [u EXCEPT !.resolved = u.resolved + 1,
                          !.failed = IF outcome = "ok" THEN u.failed
                                     ELSE u.failed \cup {u.i},
                          !.alerted = AlertedAfter(u, outcome),
                          !.refreshes = u.refreshes + k,
                          !.unstored = IF Stored(outcome) THEN u.unstored
                                       ELSE u.unstored \cup {u.i},
                          !.solo = refreshes = <<>>]
       IN  /\ IF Stored(outcome)
              THEN server' = Append(server, nextId) /\ nextId' = nextId + 1
              ELSE UNCHANGED <<server, nextId>>
           /\ IF k > 0
              THEN /\ Len(refreshes) < MaxRefresh
                   /\ refreshes' = loadClips(refreshes, "upload")
              ELSE UNCHANGED refreshes
           /\ IF LoopEnds(u, outcome)
              THEN /\ isUploading' = FALSE
                   /\ uploads' = RemoveAt(uploads, b)
                   /\ doneBatch' = v
                   /\ lastOp' = Op("handleFileUpload", "ended")
              ELSE /\ uploads' = [uploads EXCEPT ![b] = [v EXCEPT !.i = u.i + 1,
                                                                   !.solo = FALSE]]
                   /\ lastOp' = Op("handleFileUpload", "next")
                   /\ UNCHANGED <<isUploading, doneBatch>>
    /\ UNCHANGED <<clips, isProcessing, progress, websocket, concatReqs,
                   deleteReqs, peak, rising>>

(***************************************************************************)
(* handleProcess and the Concatenate button                                *)
(***************************************************************************)
\* variant: the clip count is never tested
NoClipsNever == FALSE

\* clips.length === 0
NoClips == Len(clips) = 0

\* variant: disabled={clips.length === 0}
ButtonDisabledWhenEmpty == NoClips

\* disabled={isProcessing || clips.length === 0}, inside {clips.length > 0 && ...}
ButtonDisabled == isProcessing \/ NoClips

ConcatOutcomes == {"ok", "rejected", "badbody", "transport"}

\* the user triggers concatenation: a click on a disabled (or not rendered)
\* button calls nothing; otherwise handleProcess runs up to its await
Concatenate ==
    /\ websocket = "open"
    /\ IF ButtonDisabled
       THEN /\ lastOp' = Op("handleProcess", "disabled")
            /\ UNCHANGED <<isProcessing, progress, concatReqs, peak, rising>>
       ELSE IF NoClips
       THEN /\ lastOp' = Op("handleProcess", "noclips")
            /\ UNCHANGED <<isProcessing, progress, concatReqs, peak, rising>>
       ELSE /\ concatReqs < MaxConcat
            /\ isProcessing' = TRUE
            /\ progress' = Starting
            /\ concatReqs' = concatReqs + 1
            /\ peak' = 0
            /\ rising' = TRUE
            /\ lastOp' = Op("handleProcess", "started")
    /\ UNCHANGED <<clips, isUploading, websocket, server, nextId, refreshes,
                   uploads, doneBatch, deleteReqs>>

\* variant: setIsProcessing(false) stands in a finally block
ConcatAcceptedNever(outcome) == FALSE

\* variant: the catch block does not reset the flag
ConcatAcceptedAlways(outcome) == TRUE

\* variant: response.ok is not tested
ConcatAcceptedNoOkCheck(outcome) == outcome \in {"ok", "rejected"}

\* does the try block reach its end? (fetch resolves, response.ok, the body
\* parses)
ConcatAccepted(outcome) == outcome = "ok"

\* the concatenate fetch of one invocation resolves
ConcatResolve(outcome) ==
    /\ concatReqs > 0
    /\ concatReqs' = concatReqs - 1
    /\ IF ConcatAccepted(outcome)
       THEN /\ lastOp' = Op("handleProcess", "accepted")
            /\ UNCHANGED <<isProcessing, peak, rising>>
       ELSE /\ isProcessing' = FALSE
            /\ peak' = 0
            /\ rising' = TRUE
            /\ lastOp' = Op("handleProcess", "alert")
    /\ UNCHANGED <<clips, isUploading, progress, websocket, server, nextId,
                   refreshes, uploads, doneBatch, deleteReqs>>

(***************************************************************************)
(* websocket.onmessage and the effect's cleanup                            *)
(***************************************************************************)
\* data.stage === 'complete' || data.stage === 'error'
IsTerminal(data) == data.stage \in {"complete", "error"}

\* variant: an event below the recorded value is dropped
RecordedMonotonic(data) ==
    IF progress # NULL /\ data.progress < progress.progress THEN progress ELSE data

\* the value setProgress receives
Recorded(data) == data

\* variant: the handler only records the event
ProcessingAfterUnchanged(data) == isProcessing

\* variant: setIsProcessing(stage is not terminal)
ProcessingAfterByStage(data) == ~IsTerminal(data)

\* isProcessing after the handler
ProcessingAfter(data) == IF IsTerminal(data) THEN FALSE ELSE isProcessing

\* progress?.progress, nothing recorded counting as 0
PercentOf(p) == IF p = NULL THEN 0 ELSE p.progress

\* progress?.stage
StageOf(p) == IF p = NULL THEN "null" ELSE p.stage

\* variant: the effect's cleanup does not close the socket
DeliversAlways == TRUE

\* message events are dispatched only while the socket is open, that is until
\* the effect's cleanup has called websocket.close()
Delivers == websocket = "open"

\* the backend pushes an event on the progress channel
OnMessage(data) ==
    /\ Delivers
    /\ progress' = Recorded(data)
    /\ isProcessing' = ProcessingAfter(data)
    /\ peak' = IF isProcessing' THEN Max(peak, progress'.progress) ELSE 0
    /\ rising' = IF isProcessing'
               THEN rising /\ progress'.progress >= PercentOf(progress)
               ELSE TRUE
    /\ lastOp' = [op |-> "onmessage", res |-> data.stage, data |-> data,
                  prev |-> StageOf(progress)]
    /\ UNCHANGED <<clips, isUploading, websocket, server, nextId, refreshes,
                   uploads, doneBatch, concatReqs, deleteReqs>>

\* variant: the banner is shown whenever an output filename is held
BannerShownAnyStage == progress # NULL /\ progress.output_filename # ""

\* {progress && ... progress.output_filename && progress.stage === 'complete'
\* && (...)}: the "Video saved as" banner is rendered (inside the process
\* section, which is rendered when clips.length > 0)
BannerShown ==
    /\ ~NoClips
    /\ progress # NULL
    /\ progress.output_filename # ""
    /\ progress.stage = "complete"

\* return () => { websocket.close(); }: the component unmounts
Unmount ==
    /\ websocket = "open"
    /\ websocket' = "closed"
    /\ lastOp' = Op("unmount", "done")
    /\ UNCHANGED <<clips, isUploading, isProcessing, progress, server, nextId,
                   refreshes, uploads, doneBatch, concatReqs, deleteReqs, peak, rising>>

(***************************************************************************)
(* handleDeleteClip                                                        *)
(***************************************************************************)
DeleteOutcomes == {"ok", "notfound", "rejected", "transport"}

\* variant: the row is taken out of the list when the button is clicked
DeleteClipOptimistic(c) ==
    /\ websocket = "open"
    /\ c \in Range(clips)
    /\ Len(deleteReqs) < MaxDelete
    /\ deleteReqs' = Append(deleteReqs, c)
    /\ clips' = Without(clips, c)
    /\ lastOp' = Op("handleDeleteClip", "sent")
    /\ UNCHANGED <<isUploading, isProcessing, progress, websocket, server,
                   nextId, refreshes, uploads, doneBatch, concatReqs, peak, rising>>

\* the user clicks the delete button of a clip shown in the list
DeleteClip(c) ==
    /\ websocket = "open"
    /\ c \in Range(clips)
    /\ Len(deleteReqs) < MaxDelete
    /\ deleteReqs' = Append(deleteReqs, c)
    /\ lastOp' = Op("handleDeleteClip", "sent")
    /\ UNCHANGED <<clips, isUploading, isProcessing, progress, websocket, server,
                   nextId, refreshes, uploads, doneBatch, concatReqs, peak, rising>>

\* variant: loadClips() stands after the try/catch
DeleteRefreshesAlways(outcome) == TRUE

\* does the try block reach loadClips()?
DeleteRefreshes(outcome) == outcome = "ok"

\* the delete fetch j resolves
DeleteResolve(j, outcome) ==
    /\ j \in DOMAIN deleteReqs
    /\ outcome = "ok" => deleteReqs[j] \in Range(server)
    /\ outcome = "notfound" => deleteReqs[j] \notin Range(server)
    /\ server' = IF outcome = "ok" THEN Without(server, deleteReqs[j]) ELSE server
    /\ deleteReqs' = RemoveAt(deleteReqs, j)
    /\ IF DeleteRefreshes(outcome)
       THEN /\ Len(refreshes) < MaxRefresh
            /\ refreshes' = loadClips(refreshes, "delete")
       ELSE UNCHANGED refreshes
    /\ lastOp' = Op("handleDeleteClip", outcome)
    /\ UNCHANGED <<clips, isUploading, isProcessing, progress, websocket, nextId,
                   uploads, doneBatch, concatReqs, peak, rising>>

(***************************************************************************)
(* Initial state: the component has mounted; both mount effects have run   *)
(* (the WebSocket is open and the first loadClips() fetch is in flight).   *)
(***************************************************************************)
Init ==
    /\ clips = <<>>
    /\ isUploading = FALSE
    /\ isProcessing = FALSE
    /\ progress = NULL
    /\ websocket = "open"
    /\ \E k \in 0..InitClips :
         /\ server = [i \in 1..k |-> i]
         /\ nextId = k + 1
    /\ refreshes = loadClips(<<>>, "mount")
    /\ uploads = <<>>
    /\ doneBatch = NULL
    /\ concatReqs = 0
    /\ deleteReqs = <<>>
    /\ peak = 0
    /\ rising = TRUE
    /\ lastOp = Op("mount", "done")

(***************************************************************************)
(* Specifications                                                          *)
(***************************************************************************)
Refresh ==
    \/ \E i \in DOMAIN refreshes : ListClipsRespond(i)
    \/ \E i \in DOMAIN refreshes, kind \in RefreshKinds : LoadClipsResume(i, kind)

\* the concatenation job: the Concatenate button, the start request, the
\* progress channel
NextJob ==
    \/ Refresh
    \/ Concatenate
    \/ \E outcome \in ConcatOutcomes : ConcatResolve(outcome)
    \/ \E data \in ProcessingProgress : OnMessage(data)
    \/ Unmount

SpecJob == Init /\ [][NextJob]_vars

\* the upload flow
NextUpload ==
    \/ Refresh
    \/ \E n \in 0..MaxFiles : SelectFiles(n)
    \/ \E b \in DOMAIN uploads, outcome \in UploadOutcomes : UploadResolve(b, outcome)
    \/ Unmount

SpecUpload == Init /\ [][NextUpload]_vars

\* the delete flow
NextDelete ==
    \/ Refresh
    \/ \E c \in Range(clips) : DeleteClip(c)
    \/ \E j \in DOMAIN deleteReqs, outcome \in DeleteOutcomes : DeleteResolve(j, outcome)
    \/ Unmount

SpecDelete == Init /\ [][NextDelete]_vars

\* no request is in flight
Idle == refreshes = <<>> /\ uploads = <<>> /\ deleteReqs = <<>> /\ concatReqs = 0

\* the selections made in a session: none or a single file (batches of several
\* files are explored by SpecUpload)
SessionSelections == {0, 1}

\* a session in which the three flows share the component and the user waits
\* for the requests in flight to settle before the next click; progress events
\* arrive at any time
NextSession ==
    \/ Refresh
    \/ Idle /\ \E n \in SessionSelections : SelectFiles(n)
    \/ \E b \in DOMAIN uploads, outcome \in UploadOutcomes : UploadResolve(b, outcome)
    \/ Idle /\ Concatenate
    \/ \E outcome \in ConcatOutcomes : ConcatResolve(outcome)
    \/ \E data \in ProcessingProgress : OnMessage(data)
    \/ Idle /\ \E c \in Range(clips) : DeleteClip(c)
    \/ \E j \in DOMAIN deleteReqs, outcome \in DeleteOutcomes : DeleteResolve(j, outcome)
    \/ Unmount

SpecSession == Init /\ [][NextSession]_vars

Next == NextJob \/ NextUpload \/ NextDelete

Spec == Init /\ [][Next]_vars

(***************************************************************************)
(* Properties of the concatenation job (SpecJob)                           *)
(***************************************************************************)
JobVars == <<concatReqs, isProcessing, progress>>

\* C1 (as stated): a trigger of concatenation while fewer than 2 clips are
\* held sends no concatenate request and changes neither isProcessing nor
\* progress.
C1_FewerThanTwoClipsRejected ==
    [][(Concatenate /\ Len(clips) < 2) => UNCHANGED JobVars]_vars

\* C1 (amended): a trigger of concatenation while no clip is held sends no
\* concatenate request and changes neither isProcessing nor progress.
C1_NoClipsRejected ==
    [][(Concatenate /\ Len(clips) = 0) => UNCHANGED JobVars]_vars

\* the user has just triggered concatenation with an empty clip list, after
\* the list had been loaded, and nothing was sent
C1_Witness ==
    /\ lastOp = Op("handleProcess", "disabled")
    /\ Len(clips) = 0
    /\ refreshes = <<>>
    /\ concatReqs = 0
    /\ ~isProcessing
    /\ progress = NULL

C3_RecordedIsRunningMaximum ==
    (isProcessing /\ progress # NULL) => progress.progress = peak

\* C3 (amended): the recorded progress is the most recently received event,
\* also when its value is lower than one recorded before.
C3_RecordedIsLatestEvent ==
    lastOp.op = "onmessage" => progress = lastOp.data

\* an event with a value lower than one recorded before has just been applied
\* to an active job
C3_Witness ==
    /\ lastOp.op = "onmessage"
    /\ isProcessing
    /\ progress # NULL
    /\ progress.progress < peak

\* C4 (as stated): once the progress record is a terminal event ("complete"
\* or "error"), a later inbound event changes neither isProcessing nor the
\* progress record.
C4_TerminalIgnoresLaterEvents ==
    [][\A data \in ProcessingProgress :
         (progress # NULL /\ IsTerminal(progress) /\ OnMessage(data))
            => UNCHANGED <<isProcessing, progress>>]_vars

\* C4 (amended): once the progress record is a terminal event, a later inbound
\* event leaves the job inactive (isProcessing stays false) but replaces the
\* progress record by the event.
C4_TerminalStaysInactive ==
    (lastOp.op = "onmessage" /\ lastOp.prev \in {"complete", "error"})
        => (~isProcessing /\ progress = lastOp.data)

\* a non-terminal event has just been applied on top of a terminal one
C4_Witness ==
    /\ lastOp.op = "onmessage"
    /\ lastOp.prev = "complete"
    /\ progress # NULL
    /\ progress.stage = "processing"
    /\ ~isProcessing

\* C10 (as stated): after the concatenate request has been rejected (non-OK
\* response or transport failure) the job is in the error state: the progress
\* record no longer reads "starting" but "error".
C10_RejectedStartIsError ==
    [][\A outcome \in ConcatOutcomes \ {"ok"} :
         (ConcatResolve(outcome) /\ progress # NULL /\ progress.stage = "starting")
            => (progress' # NULL /\ progress'.stage = "error")]_vars

\* C10 (amended): when the concatenate request is rejected (non-OK response,
\* unreadable body or transport failure) the job stops being active
\* (isProcessing becomes false) and the failure is alerted; the progress record
\* is left as it was, so it still reads "starting" unless an event replaced it.
C10_RejectedStartIsInactive ==
    [][\A outcome \in ConcatOutcomes \ {"ok"} :
         ConcatResolve(outcome)
            => (~isProcessing' /\ progress' = progress
                /\ lastOp' = Op("handleProcess", "alert"))]_vars

\* the start request of a job has just been rejected
C10_Witness ==
    /\ lastOp = Op("handleProcess", "alert")
    /\ ~isProcessing
    /\ progress = Starting
    /\ concatReqs = 0

(***************************************************************************)
(* Properties of the upload flow (SpecUpload)                              *)
(***************************************************************************)
AllBatches == Range(uploads) \cup (IF doneBatch = NULL THEN {} ELSE {doneBatch})

\* C5: every file of a batch is attempted whatever failed before it: a batch
\* ends only with an outcome for each of its files, and the files alerted for
\* are exactly the files whose upload failed.
C5_EveryFileAttempted ==
    /\ \A u \in AllBatches : u.alerted = u.failed
    /\ doneBatch # NULL => doneBatch.resolved = doneBatch.n

\* a batch of two files has ended whose first upload failed and whose second
\* upload was still performed, and succeeded
C5_Witness ==
    /\ doneBatch # NULL
    /\ doneBatch.n = 2
    /\ doneBatch.resolved = 2
    /\ doneBatch.failed = {1}
    /\ doneBatch.alerted = {1}

\* C6: a batch calls loadClips() exactly once, and not before all its files
\* have resolved: none while a file is outstanding, one when it has ended.
C6_OneRefreshAfterLastFile ==
    /\ \A u \in Range(uploads) : u.refreshes = 0 /\ u.resolved < u.n
    /\ doneBatch # NULL =>
         (doneBatch.refreshes = 1 /\ doneBatch.resolved = doneBatch.n)
    /\ lastOp = Op("handleFileUpload", "ended") =>
         (refreshes # <<>> /\ refreshes[Len(refreshes)].origin = "upload")

\* a batch of two files that both failed has just ended and its refresh is in
\* flight
C6_Witness ==
    /\ lastOp = Op("handleFileUpload", "ended")
    /\ doneBatch # NULL
    /\ doneBatch.n = 2
    /\ doneBatch.alerted = {1, 2}
    /\ doneBatch.refreshes = 1
    /\ refreshes # <<>>

\* C9: at most one upload request is in flight: one invocation at most is
\* inside its loop, and it awaits file i only when the files before i have
\* resolved.
C9_OneUploadInFlight ==
    /\ Len(uploads) <= 1
    /\ \A u \in Range(uploads) : u.resolved = u.i - 1 /\ u.i <= u.n

\* a second selection has just been made while the second file of a batch is
\* in flight
C9_Witness ==
    /\ lastOp = Op("handleFileUpload", "disabled")
    /\ Len(uploads) = 1
    /\ uploads[1].i = 2

(***************************************************************************)
(* Properties of the clip registry (SpecDelete)                            *)
(***************************************************************************)
\* C7 (as stated): handleDeleteClip calls loadClips() when its delete request
\* has resolved, whatever the outcome.
C7_DeleteAlwaysRefreshes ==
    [][\A j \in DOMAIN deleteReqs, outcome \in DeleteOutcomes :
         DeleteResolve(j, outcome) => refreshes' = loadClips(refreshes, "delete")]_vars

\* C7 (amended): handleDeleteClip calls loadClips() when its delete request
\* has resolved with an OK response; after a NotFound or other non-OK response
\* or a transport failure it calls no loadClips().
C7_DeleteRefreshesOnSuccess ==
    [][\A j \in DOMAIN deleteReqs, outcome \in DeleteOutcomes :
         DeleteResolve(j, outcome) =>
            refreshes' = IF outcome = "ok" THEN loadClips(refreshes, "delete")
                         ELSE refreshes]_vars

\* the delete of a clip the backend no longer holds has just been rejected and
\* no refresh is in flight
C7_Witness ==
    /\ lastOp = Op("handleDeleteClip", "notfound")
    /\ refreshes = <<>>
    /\ clips # <<>>

\* C8: a refresh that fails (the fetch rejects, the body is unreadable, or the
\* backend answers with an error instead of a clip list) leaves clips as it was.
C8_FailedRefreshKeepsClips ==
    [][\A i \in DOMAIN refreshes, kind \in RefreshKinds \ {"ok"} :
         LoadClipsResume(i, kind) => clips' = clips]_vars

(***************************************************************************)
(* Further properties of the concatenation job (SpecJob)                   *)
(***************************************************************************)
\* C12 (as stated): an OK response of the start call is the terminal
\* transition: once it has been handled the job is no longer active.
C12_OkResponseEndsJob ==
    lastOp = Op("handleProcess", "accepted") => ~isProcessing

\* C12 (amended): an OK response of the start call is no transition: it leaves
\* isProcessing and progress as they are, so a job that receives no terminal
\* push event stays active.
C12_OkResponseChangesNothing ==
    [][ConcatResolve("ok") => UNCHANGED <<isProcessing, progress>>]_vars

\* the start call of a job has just been answered OK, no push event was ever
\* delivered, and the job is still active
C12_Witness ==
    /\ lastOp = Op("handleProcess", "accepted")
    /\ isProcessing
    /\ progress = Starting
    /\ concatReqs = 0

\* C13: the teardown closes the progress socket and sends no request, and once
\* the socket is closed no step changes the progress record or reopens the
\* socket, and no event is handled.
C13_TeardownClosesChannel ==
    [][/\ Unmount =>
            (websocket' = "closed"
             /\ UNCHANGED <<refreshes, uploads, concatReqs, deleteReqs, server>>)
       /\ websocket = "closed" =>
            (websocket' = "closed" /\ progress' = progress
             /\ lastOp'.op # "onmessage")]_vars

\* the component was torn down while a job was active, and a request that was
\* in flight then has resolved since
C13_Witness ==
    /\ websocket = "closed"
    /\ isProcessing
    /\ progress # NULL
    /\ lastOp = Op("handleProcess", "accepted")

C19_ActiveJobHasProgress ==
    isProcessing => progress # NULL

\* a progress event has just been applied to an active job
C19_Witness ==
    /\ isProcessing
    /\ progress # NULL
    /\ progress.stage = "processing"
    /\ lastOp.op = "onmessage"
    /\ lastOp.prev = "starting"

(***************************************************************************)
(* Further properties of the clip registry (SpecDelete)                    *)
(***************************************************************************)
\* C18: the clip list answered to a refresh is never applied to the clip set
\* after the (different) clip list of a refresh issued later has been applied,
\* so that the clip set held when all refreshes have resolved is the response
\* of the last one.
C18_OlderRefreshNeverOverwrites ==
    [][\A i \in DOMAIN refreshes :
         LoadClipsResume(i, "ok") => ~refreshes[i].stale]_vars

(***************************************************************************)
(* Further properties of the upload flow (SpecUpload)                      *)
(***************************************************************************)
\* the batch that ended last has been refreshed: its own refresh, issued while
\* no other refresh was in flight, has just been applied with a clip list, and
\* no other batch has begun since
BatchRefreshed ==
    /\ doneBatch # NULL
    /\ doneBatch.solo
    /\ uploads = <<>>
    /\ refreshes = <<>>
    /\ lastOp = [op |-> "loadClips", res |-> "ok", origin |-> "upload"]

\* C11: after a batch of N files of which M were not stored by the
\* backend, exactly M failures have been reported, and once the batch has been
\* refreshed the registry holds N - M clips more than the backend held before.
C11_BatchLeavesNMinusM ==
    BatchRefreshed =>
        /\ Cardinality(doneBatch.alerted) = Cardinality(doneBatch.unstored)
        /\ Len(clips) = doneBatch.before + doneBatch.n - Cardinality(doneBatch.unstored)

\* C20: isUploading is true exactly while an invocation is inside its loop,
\* whatever the outcomes of its files, and an empty selection changes nothing
\* and sends no request.
C20_UploadingFlagFollowsBatch ==
    [][/\ isUploading' <=> uploads' # <<>>
       /\ SelectFiles(0) =>
            UNCHANGED <<clips, isUploading, isProcessing, progress, websocket,
                        server, nextId, refreshes, uploads, doneBatch,
                        concatReqs, deleteReqs, peak, rising>>]_vars

\* a batch whose uploads all failed has ended, the flag is down again, and an
\* empty selection has just been made
C20_Witness ==
    /\ lastOp = Op("handleFileUpload", "nofiles")
    /\ ~isUploading
    /\ uploads = <<>>
    /\ doneBatch # NULL
    /\ doneBatch.n = 2
    /\ doneBatch.alerted = {1, 2}

(***************************************************************************)
(* Properties of a session in which the flows share the component          *)
(* (SpecSession)                                                           *)
(***************************************************************************)
\* C15: the clip list changes only in a step that applies the answer of a
\* refresh; selecting files, the upload fetches, the Concatenate button and its
\* fetch, the delete request and its fetch, and progress events leave it as it
\* is.
C15_ClipsSingleWriter ==
    [][clips' # clips =>
         \E i \in DOMAIN refreshes, kind \in RefreshKinds : LoadClipsResume(i, kind)]_vars

\* after an upload, a job that has received events and a delete, the refresh
\* that follows the delete has changed the clip list
C15_Witness ==
    /\ lastOp = [op |-> "loadClips", res |-> "ok", origin |-> "delete"]
    /\ clips = server
    /\ Len(clips) = 1
    /\ doneBatch # NULL
    /\ progress # NULL
    /\ progress.stage = "complete"

\* C16: nothing is retried automatically: a concatenate request is sent only by
\* a click on the button, one per click; a file whose upload failed is not
\* requested again (the loop moves to the next file or ends), so each file of a
\* selection is requested once; and when the concatenate request fails the job
\* is no longer active, so that the button is enabled again whenever clips are
\* held.
C16_NoAutomaticRetry ==
    [][/\ concatReqs' > concatReqs => (Concatenate /\ concatReqs' = concatReqs + 1)
       /\ \A b \in DOMAIN uploads, outcome \in UploadOutcomes :
            (~UploadSucceeded(outcome) /\ UploadResolve(b, outcome))
                => \/ Len(uploads') = Len(uploads) - 1
                   \/ /\ Len(uploads') = Len(uploads)
                      /\ uploads'[b].i = uploads[b].i + 1
       /\ \A u \in Range(uploads') : u.i = u.resolved + 1 /\ u.i <= u.n
       /\ \A outcome \in ConcatOutcomes \ {"ok"} :
            ConcatResolve(outcome)
                => /\ concatReqs' = concatReqs - 1
                   /\ ~isProcessing'
                   /\ ~NoClips' => ~ButtonDisabled']_vars

\* after a batch with a failed upload, a concatenate request has just failed:
\* no request is in flight, the job is not active and the button is enabled
C16_Witness ==
    /\ lastOp = Op("handleProcess", "alert")
    /\ concatReqs = 0
    /\ ~isProcessing
    /\ ~ButtonDisabled
    /\ uploads = <<>>
    /\ doneBatch # NULL
    /\ doneBatch.failed # {}

\* a batch with a stored file has ended, two clips are held, and the active job
\* has received events that never fell and of which the last carried 100
RunReachedHundred ==
    /\ doneBatch # NULL
    /\ doneBatch.unstored # 1..doneBatch.n
    /\ Len(clips) = 2
    /\ isProcessing
    /\ rising
    /\ progress.stage = "processing"
    /\ progress.progress = 100

\* the "complete" events that carry an output filename
CompleteWithFilename ==
    {data \in ProcessingProgress :
        data.stage = "complete" /\ data.output_filename # ""}

\* C17 (as stated): after a batch that leaves two clips, a started job whose
\* events rose to 100 and which then receives a "complete" event carrying an
\* output filename ends complete, with that filename and with progress 100.
C17_RunEndsAtHundred ==
    [][RunReachedHundred =>
         \A data \in CompleteWithFilename :
            OnMessage(data)
                => /\ ~isProcessing'
                   /\ progress'.stage = "complete"
                   /\ progress'.output_filename = data.output_filename
                   /\ progress'.progress = 100]_vars

\* C17 (amended): such a run ends complete, with the event's filename and with
\* the progress value the "complete" event itself carries.
C17_RunEndsAtEventValue ==
    [][RunReachedHundred =>
         \A data \in CompleteWithFilename :
            OnMessage(data)
                => /\ ~isProcessing'
                   /\ progress'.stage = "complete"
                   /\ progress'.output_filename = data.output_filename
                   /\ progress'.progress = data.progress]_vars

\* the run has ended: after a batch, with two clips held, a "complete" event
\* carrying 100 and a filename has followed a "processing" event
C17_Witness ==
    /\ lastOp.op = "onmessage"
    /\ lastOp.res = "complete"
    /\ lastOp.prev = "processing"
    /\ lastOp.data.progress = 100
    /\ progress = lastOp.data
    /\ progress.output_filename = "out.mp4"
    /\ ~isProcessing
    /\ Len(clips) = 2
    /\ doneBatch # NULL
    /\ doneBatch.unstored = {}

====
